---- MODULE Spec2Model ----
(***************************************************************************)
(* A model of the three applications of ai-projects-playground:            *)
(*   - the YouTube summarizer  (projects/youtube_summarizer/app/summarizer.py)   *)
(*   - the sentiment analyzer  (projects/sentiment_analyzer/app/sentiment_analyzer.py) *)
(*   - the Wikipedia RAG index (projects/wikipedia_rag/app/wiki_rag.py)    *)
(* Text is a sequence of one-character strings.  Every external call (the  *)
(* transcript API, the Hugging Face pipelines, pandas, matplotlib, the     *)
(* Wikipedia reader, Ollama, the index store) is a step whose outcome is   *)
(* chosen nondeterministically: a value, or an exception.                  *)
(***************************************************************************)
EXTENDS Integers, Sequences, FiniteSets, TLC

(***************************************************************************)
(* Bounds of the model.                                                    *)
(***************************************************************************)
\* tokenizer limits 1..MaxModelTokens are tried, besides the cap and cap+1
MaxModelTokens == 10
\* transcripts of every length 0..MaxTranscriptLen are tried
MaxTranscriptLen == 60
\* summarization calls one run may make (the window loop of a zero step never ends)
MaxCalls == 6
\* rows of an uploaded spreadsheet
MaxRows == 3
\* invocations of get_index, and process restarts, in one behaviour
MaxInvocations == 4
MaxRestarts == 2

(***************************************************************************)
(* The state: one group of variables for each application.                 *)
(***************************************************************************)
\* summarizer.py: one call of get_youtube_summary_from_url or generate_summary
VARIABLES
    entry,            \* the function called: get_youtube_summary_from_url or generate_summary
    video_url,        \* the argument of get_youtube_summary_from_url
    url_id,           \* the identifier video_url was built around (None: built around none)
    transcript,       \* the text the transcript API and the formatter yield for the video
    model_max_length, \* summarization_pipeline.tokenizer.model_max_length
    pc,               \* where the call stands
    video_id,
    text_transcript,  \* text_transcript / text_input
    start_idx,
    summaries,
    pipelineCalls,    \* the calls of summarization_pipeline made so far, in order
    fetchCalls,       \* the calls of YouTubeTranscriptApi().fetch made so far
    returned,         \* what the called function returned
    raised,           \* the exception that left the called function ("": none)
    failed            \* the step that raised, and what it raised

sumVars == <<entry, video_url, url_id, transcript, model_max_length, pc, video_id,
             text_transcript, start_idx, summaries, pipelineCalls, fetchCalls,
             returned, raised, failed>>

\* sentiment_analyzer.py: one call of process_reviews_file
VARIABLES
    file,            \* the argument of process_reviews_file
    pc_r,            \* where the call stands
    df,              \* the DataFrame read: its columns and its rows
    sentiments,      \* the labels computed so far, one per row
    classifierCalls, \* the rows get_sentiment_label was called on, in order
    chartCalls,      \* the calls of create_sentiment_pie_chart
    returned_r,      \* what process_reviews_file returned
    raised_r         \* the exception that left process_reviews_file

revVars == <<file, pc_r, df, sentiments, classifierCalls, chartCalls, returned_r, raised_r>>

\* wiki_rag.py: the index directory, and the process that calls get_index
VARIABLES
    index_dir,      \* INDEX_DIR on disk: "absent", "partial" (a persist that failed), "complete"
    cached,         \* st.cache_resource holds the index in this process
    pc_i,           \* where the running invocation stands ("idle": none runs)
    dir_at_invoke,  \* the directory existed when the running invocation was made
    fetches,        \* calls of WikipediaReader().load_data
    embeddings,     \* calls of VectorStoreIndex.from_documents
    loads,          \* calls of load_index_from_storage that returned
    invocations,
    restarts

idxVars == <<index_dir, cached, pc_i, dir_at_invoke, fetches, embeddings, loads,
             invocations, restarts>>

vars == <<sumVars, revVars, idxVars>>

\* what no step of the summarizer changes: its inputs, and the other applications
sumFrame == <<entry, video_url, url_id, transcript, model_max_length, revVars, idxVars>>

\* what no step of process_reviews_file changes
revFrame == <<file, sumVars, idxVars>>

\* what no step of get_index changes
idxFrame == <<sumVars, revVars>>

(***************************************************************************)
(* Helpers on text.                                                        *)
(***************************************************************************)
Range(s) == {s[i] : i \in DOMAIN s}

Min(a, b) == IF a < b THEN a ELSE b

\* str.strip() removes leading and trailing whitespace; \s of the regex
Whitespace == {" ", "\t", "\n", "\r", "\f"}

\* text.strip() is the empty string
StripIsEmpty(text) == \A i \in DOMAIN text : text[i] \in Whitespace

\* text[start:end] with 0-based, end-exclusive indices 0 <= start <= end <= len
Slice(text, start, end) == SubSeq(text, start + 1, end)

RECURSIVE Join(_)
\* " ".join(parts)
Join(parts) ==
    IF parts = <<>> THEN <<>>
    ELSE IF Len(parts) = 1 THEN parts[1]
    ELSE parts[1] \o <<" ">> \o Join(Tail(parts))

None == <<>>

(***************************************************************************)
(* summarizer.py: extract_video_id                                         *)
(***************************************************************************)
\* [a-zA-Z0-9_-]
IdChars == Range(<<"a", "b", "c", "d", "e", "f", "g", "h", "i", "j", "k", "l", "m", "n", "o", "p", "q", "r", "s", "t", "u", "v", "w", "x", "y", "z", "A", "B", "C", "D", "E", "F", "G", "H", "I", "J", "K", "L", "M", "N", "O", "P", "Q", "R", "S", "T", "U", "V", "W", "X", "Y", "Z", "0", "1", "2", "3", "4", "5", "6", "7", "8", "9", "_", "-">>)

\* {11}
ID_LEN == 11

LitYoutubeCom == <<"y", "o", "u", "t", "u", "b", "e", ".", "c", "o", "m", "/">>
LitYoutuBe == <<"y", "o", "u", "t", "u", ".", "b", "e", "/">>
LitV == <<"v", "/">>
LitE == <<"e", "/">>
LitEmbed == <<"e", "m", "b", "e", "d", "/">>
LitVEq == <<"v", "=">>

\* the literal lit stands in url at position p (1-based)
LitAt(url, p, lit) ==
    /\ p >= 1
    /\ p + Len(lit) - 1 <= Len(url)
    /\ \A i \in 1..Len(lit) : url[p + i - 1] = lit[i]

\* ([a-zA-Z0-9_-]{11}) matches at position p
IdAt(url, p) ==
    /\ p >= 1
    /\ p + ID_LEN - 1 <= Len(url)
    /\ \A i \in p..(p + ID_LEN - 1) : url[i] \in IdChars

\* every character of url[a..b] is \S
NonSpace(url, a, b) == \A i \in a..b : url[i] \notin Whitespace

\* [^\/\n\s]+\/\S+\/ from position p, then the identifier: where the identifier
\* starts, or 0.  [^\/\n\s]+ must run up to the next slash; \S+ is greedy, so
\* the last slash that 11 identifier characters follow is taken.
AltPath(url, p) ==
    LET stops == {r \in p..Len(url) : url[r] = "/" \/ url[r] \in Whitespace}
    IN  IF stops = {} THEN 0
        ELSE LET r == CHOOSE x \in stops : \A y \in stops : x <= y
             IN  IF r = p \/ url[r] # "/" THEN 0
                 ELSE LET ends == {q \in (r + 2)..Len(url) :
                                      /\ url[q] = "/"
                                      /\ NonSpace(url, r + 1, q - 1)
                                      /\ IdAt(url, q + 1)}
                      IN  IF ends = {} THEN 0
                          ELSE (CHOOSE x \in ends : \A y \in ends : y <= x) + 1

\* (?:v|e(?:mbed)?)\/ from position p, then the identifier
AltEmbed(url, p) ==
    IF LitAt(url, p, LitV) /\ IdAt(url, p + Len(LitV)) THEN p + Len(LitV)
    ELSE IF LitAt(url, p, LitEmbed) /\ IdAt(url, p + Len(LitEmbed)) THEN p + Len(LitEmbed)
    ELSE IF LitAt(url, p, LitE) /\ IdAt(url, p + Len(LitE)) THEN p + Len(LitE)
    ELSE 0

\* \S*?[?&]v= from position p, then the identifier: \S*? is lazy, so the first
\* [?&]v= that 11 identifier characters follow is taken
AltQuery(url, p) ==
    LET hits == {q \in p..Len(url) :
                    /\ NonSpace(url, p, q - 1)
                    /\ url[q] \in {"?", "&"}
                    /\ LitAt(url, q + 1, LitVEq)
                    /\ IdAt(url, q + 1 + Len(LitVEq))}
    IN  IF hits = {} THEN 0
        ELSE (CHOOSE x \in hits : \A y \in hits : x <= y) + 1 + Len(LitVEq)

\* the whole pattern tried at position p0: where the captured group starts, or 0.
\* The alternatives are tried in the order they are written.
MatchAt(url, p0) ==
    IF LitAt(url, p0, LitYoutubeCom)
    THEN LET p == p0 + Len(LitYoutubeCom)
         IN  IF AltPath(url, p) # 0 THEN AltPath(url, p)
             ELSE IF AltEmbed(url, p) # 0 THEN AltEmbed(url, p)
             ELSE AltQuery(url, p)
    ELSE IF LitAt(url, p0, LitYoutuBe) /\ IdAt(url, p0 + Len(LitYoutuBe))
    THEN p0 + Len(LitYoutuBe)
    ELSE 0

\* re.search(regex, url) finds a match
RegexMatches(url) == \E p0 \in 1..Len(url) : MatchAt(url, p0) # 0

\* extract_video_id(url): group 1 of the leftmost match, or None
extract_video_id(url) ==
    IF RegexMatches(url)
    THEN LET starts == {p0 \in 1..Len(url) : MatchAt(url, p0) # 0}
             p0 == CHOOSE x \in starts : \A y \in starts : x <= y
             g == MatchAt(url, p0)
         IN  SubSeq(url, g, g + ID_LEN - 1)
    ELSE None

(***************************************************************************)
(* summarizer.py: the window sizes of generate_summary                     *)
(***************************************************************************)
\* "if max_model_input_tokens > 1024"
TokenCap == 1024

CharsPerToken == 4

max_model_input_tokens(max_length) ==
    IF max_length > TokenCap THEN TokenCap ELSE max_length

\* int(m * 0.8): the double product truncated, which is floor(8m/10) for every
\* m in 1..1024
target_chunk_tokens(m) == (m * 8) \div 10

chunk_size_chars(m) == target_chunk_tokens(m) * CharsPerToken

\* int(m * 0.1 * 4), which is floor(4m/10) for every m in 1..1024
overlap_chars(m) == (m * CharsPerToken) \div 10

\* what "start_idx += chunk_size_chars - overlap_chars" adds
WindowStep(m) == chunk_size_chars(m) - overlap_chars(m)

(***************************************************************************)
(* summarizer.py: get_youtube_summary_from_url and generate_summary        *)
(***************************************************************************)

Handler == "get_youtube_summary_from_url"
Direct == "generate_summary"

MsgNoVideoId == "Video ID could not be extracted. Please provide a valid YouTube URL."
MsgEmptyTranscript == "Transcript is empty or could not be formatted."
MsgNoTranscriptFound == "No transcript found for this video (or auto-generated captions are not available/disabled)."
MsgTranscriptsDisabled == "Transcripts are disabled for this video."
MsgVideoUnavailable == "Video is unavailable or private."
MsgInvalidVideoId == "Invalid video ID. Please check the URL."
MsgGeneric == "An error occurred: {e}"

\* what an external call may raise: the four exceptions of youtube_transcript_api
\* the handler names, and any other Exception
Exceptions == {"NoTranscriptFound", "TranscriptsDisabled", "VideoUnavailable",
               "InvalidVideoId", "Exception"}

NoFailure == [step |-> "", exc |-> ""]
NoReturn == [kind |-> "none", msg |-> "", text |-> <<>>]
Message(m) == [kind |-> "message", msg |-> m, text |-> <<>>]
Summary(t) == [kind |-> "summary", msg |-> "", text |-> t]

\* the except clauses of get_youtube_summary_from_url without the catch-all
ExceptClauseNoCatchAll(e) ==
    CASE e = "NoTranscriptFound" -> MsgNoTranscriptFound
      [] e = "TranscriptsDisabled" -> MsgTranscriptsDisabled
      [] e = "VideoUnavailable" -> MsgVideoUnavailable
      [] e = "InvalidVideoId" -> MsgInvalidVideoId
      [] OTHER -> ""

\* the except clauses of get_youtube_summary_from_url: the string returned for
\* exception e ("": no clause catches e)
ExceptClause(e) ==
    CASE e = "NoTranscriptFound" -> MsgNoTranscriptFound
      [] e = "TranscriptsDisabled" -> MsgTranscriptsDisabled
      [] e = "VideoUnavailable" -> MsgVideoUnavailable
      [] e = "InvalidVideoId" -> MsgInvalidVideoId
      [] OTHER -> MsgGeneric

\* "if not video_id" taken as never true
NoVideoIdNever(id) == FALSE

\* "if not video_id": None, or the empty string
NoVideoId(id) == id = None

\* the step added to start_idx with the overlap added instead of subtracted
NextStartNoOverlap(start, m) == start + chunk_size_chars(m) + overlap_chars(m)

\* lines 68-70: start_idx after a window
NextStart(start, m) ==
    LET s == start + (chunk_size_chars(m) - overlap_chars(m))
    IN  IF s < 0 THEN 0 ELSE s

\* the summaries joined in reverse
JoinSummariesReversed(parts) ==
    Join([i \in 1..Len(parts) |-> parts[Len(parts) + 1 - i]])

\* line 72: " ".join(summaries)
JoinSummaries(parts) == Join(parts)

\* the threshold test with >= for >
IsLongInclusive(text, m) == Len(text) >= chunk_size_chars(m)

\* line 56: len(text_input) > chunk_size_chars
IsLong(text, m) == Len(text) > chunk_size_chars(m)

\* an exception e raised by step leaves the try block (or, when generate_summary
\* was called itself, the function)
Raise(step, e) ==
    /\ failed' = [step |-> step, exc |-> e]
    /\ pc' = "done"
    /\ IF entry = Handler /\ ExceptClause(e) # ""
       THEN returned' = Message(ExceptClause(e)) /\ UNCHANGED raised
       ELSE raised' = e /\ UNCHANGED returned

\* the summaries the external model may return
Summaries == {<<"s">>, <<"t", "t">>}

M == max_model_input_tokens(model_max_length)

CallRecord(kind, arg, start, end, out) ==
    [kind |-> kind, arg |-> arg, start |-> start, end |-> end, out |-> out]

\* lines 116-120, or the entry of generate_summary
Call ==
    /\ pc = "start"
    /\ IF entry = Handler
       THEN /\ video_id' = extract_video_id(video_url)
            /\ IF NoVideoId(video_id')
               THEN /\ returned' = Message(MsgNoVideoId)
                    /\ pc' = "done"
               ELSE /\ pc' = "fetch"
                    /\ UNCHANGED returned
            /\ UNCHANGED text_transcript
       ELSE /\ text_transcript' = transcript
            /\ pc' = "generate_summary"
            /\ UNCHANGED <<video_id, returned>>
    /\ UNCHANGED <<sumFrame, start_idx,
                   summaries, pipelineCalls, fetchCalls, raised, failed>>

\* line 124: YouTubeTranscriptApi().fetch(video_id)
FetchTranscript ==
    /\ pc = "fetch"
    /\ fetchCalls' = fetchCalls + 1
    /\ \/ /\ pc' = "format"
          /\ UNCHANGED <<returned, raised, failed>>
       \/ \E e \in Exceptions : Raise("fetch", e)
    /\ UNCHANGED <<sumFrame, video_id,
                   text_transcript, start_idx, summaries, pipelineCalls>>

\* lines 125-134: format_transcript, and the test of an empty transcript
FormatTranscript ==
    /\ pc = "format"
    /\ \/ /\ text_transcript' = transcript
          /\ IF StripIsEmpty(text_transcript')
             THEN returned' = Message(MsgEmptyTranscript) /\ pc' = "done"
             ELSE pc' = "generate_summary" /\ UNCHANGED returned
          /\ UNCHANGED <<raised, failed>>
       \/ /\ \E e \in Exceptions : Raise("format", e)
          /\ UNCHANGED text_transcript
    /\ UNCHANGED <<sumFrame, video_id,
                   start_idx, summaries, pipelineCalls, fetchCalls>>

\* lines 45-59: the sizes, and the choice between one call and the window loop
EnterGenerateSummary ==
    /\ pc = "generate_summary"
    /\ IF IsLong(text_transcript, M)
       THEN pc' = "loop" /\ start_idx' = 0 /\ summaries' = <<>>
       ELSE pc' = "whole" /\ UNCHANGED <<start_idx, summaries>>
    /\ UNCHANGED <<sumFrame, video_id,
                   text_transcript, pipelineCalls, fetchCalls, returned, raised, failed>>

\* lines 83-85: the text summarized in one call
SummarizeWhole ==
    /\ pc = "whole"
    /\ \/ \E s \in Summaries :
            /\ pipelineCalls' = Append(pipelineCalls,
                   CallRecord("whole", text_transcript, 0, Len(text_transcript), s))
            /\ returned' = Summary(s)
            /\ pc' = "done"
            /\ UNCHANGED <<raised, failed>>
       \/ /\ pipelineCalls' = Append(pipelineCalls,
                   CallRecord("whole", text_transcript, 0, Len(text_transcript), None))
          /\ \E e \in Exceptions : Raise("summarize", e)
    /\ UNCHANGED <<sumFrame, video_id,
                   text_transcript, start_idx, summaries, fetchCalls>>

\* lines 60-70: one iteration of the window loop
SummarizeChunk ==
    /\ pc = "loop"
    /\ start_idx < Len(text_transcript)
    /\ Len(pipelineCalls) < MaxCalls
    /\ LET end_idx == Min(start_idx + chunk_size_chars(M), Len(text_transcript))
           chunk == Slice(text_transcript, start_idx, end_idx)
       IN  \/ \E s \in Summaries :
                /\ pipelineCalls' = Append(pipelineCalls,
                       CallRecord("chunk", chunk, start_idx, end_idx, s))
                /\ summaries' = Append(summaries, s)
                /\ start_idx' = NextStart(start_idx, M)
                /\ UNCHANGED <<pc, returned, raised, failed>>
           \/ /\ pipelineCalls' = Append(pipelineCalls,
                       CallRecord("chunk", chunk, start_idx, end_idx, None))
              /\ \E e \in Exceptions : Raise("summarize", e)
              /\ UNCHANGED <<summaries, start_idx>>
    /\ UNCHANGED <<sumFrame, video_id,
                   text_transcript, fetchCalls>>

\* lines 60 and 72-80: the loop ends; the joined summaries are returned unless
\* they are themselves longer than a window
LoopExit ==
    /\ pc = "loop"
    /\ ~(start_idx < Len(text_transcript))
    /\ LET final_summary == JoinSummaries(summaries)
       IN  IF Len(final_summary) > chunk_size_chars(M)
           THEN pc' = "combined" /\ UNCHANGED returned
           ELSE pc' = "done" /\ returned' = Summary(final_summary)
    /\ UNCHANGED <<sumFrame, video_id,
                   text_transcript, start_idx, summaries, pipelineCalls, fetchCalls,
                   raised, failed>>

\* lines 75-78: the joined summaries summarized again
SummarizeCombined ==
    /\ pc = "combined"
    /\ LET final_summary == JoinSummaries(summaries)
       IN  \/ \E s \in Summaries :
                /\ pipelineCalls' = Append(pipelineCalls,
                       CallRecord("combined", final_summary, 0, Len(final_summary), s))
                /\ returned' = Summary(s)
                /\ pc' = "done"
                /\ UNCHANGED <<raised, failed>>
           \/ /\ pipelineCalls' = Append(pipelineCalls,
                       CallRecord("combined", final_summary, 0, Len(final_summary), None))
              /\ \E e \in Exceptions : Raise("summarize", e)
    /\ UNCHANGED <<sumFrame, video_id,
                   text_transcript, start_idx, summaries, fetchCalls>>

NextSummarizer ==
    \/ Call
    \/ FetchTranscript
    \/ FormatTranscript
    \/ EnterGenerateSummary
    \/ SummarizeWhole
    \/ SummarizeChunk
    \/ LoopExit
    \/ SummarizeCombined

(***************************************************************************)
(* The inputs of the summarizer.                                           *)
(***************************************************************************)
Schemes == {<<>>, <<"h", "t", "t", "p", "s", ":", "/", "/", "w", "w", "w", ".">>}

Ids == {<<"d", "Q", "w", "4", "w", "9", "W", "g", "X", "c", "Q">>, <<"a", "_", "b", "-", "C", "1", "d", "2", "E", "3", "f">>}

\* what may stand between "watch" and "v=": the first parameter, or others before it
ParamsBefore == {<<"?">>, <<"?", "f", "e", "a", "t", "u", "r", "e", "=", "s", "h", "a", "r", "e", "&">>, <<"?", "n", "e", "x", "t", "=", "/", "a", "/", "b", "/", "&">>, <<"?", "n", "e", "x", "t", "=", "/", "c", "/", "c", "h", "a", "n", "n", "e", "l", "n", "a", "m", "e", "_", "x", "&">>}

\* what may follow the identifier
ParamsAfter == {<<>>, <<"&", "t", "=", "4", "2">>, <<"?", "s", "i", "=", "a", "b", "c">>, <<"&", "u", "=", "/", "c", "/", "R", "i", "c", "k", "A", "s", "t", "l", "e", "y", "V", "E", "V", "O">>}

\* the recognized shapes, up to the identifier
Heads ==
    {<<"y", "o", "u", "t", "u", "b", "e", ".", "c", "o", "m", "/", "e", "m", "b", "e", "d", "/">>, <<"y", "o", "u", "t", "u", "b", "e", ".", "c", "o", "m", "/", "e", "/">>, <<"y", "o", "u", "t", "u", "b", "e", ".", "c", "o", "m", "/", "v", "/">>, <<"y", "o", "u", "t", "u", ".", "b", "e", "/">>}
    \cup {<<"y", "o", "u", "t", "u", "b", "e", ".", "c", "o", "m", "/", "w", "a", "t", "c", "h">> \o b \o <<"v", "=">> : b \in ParamsBefore}

\* URLs that embed an identifier in a recognized shape
ShapedUrls ==
    {[url |-> s \o h \o id \o a, id |-> id] :
        s \in Schemes, h \in Heads, id \in Ids, a \in ParamsAfter}

\* URLs built around no identifier in a recognized shape
OtherUrls ==
    {[url |-> u, id |-> None] : u \in {
        <<>>,
        <<"n", "o", "t", " ", "a", " ", "u", "r", "l">>,
        <<"h", "t", "t", "p", "s", ":", "/", "/", "w", "w", "w", ".", "y", "o", "u", "t", "u", "b", "e", ".", "c", "o", "m", "/">>,
        <<"h", "t", "t", "p", "s", ":", "/", "/", "w", "w", "w", ".", "y", "o", "u", "t", "u", "b", "e", ".", "c", "o", "m", "/", "w", "a", "t", "c", "h", "?", "v", "=", "s", "h", "o", "r", "t">>,
        <<"h", "t", "t", "p", "s", ":", "/", "/", "w", "w", "w", ".", "y", "o", "u", "t", "u", "b", "e", ".", "c", "o", "m", "/", "w", "a", "t", "c", "h", "?", "v", "=", "d", "Q", "w", "4", "w", "9", "W", "g", "X", "c", "!">>,
        <<"h", "t", "t", "p", "s", ":", "/", "/", "w", "w", "w", ".", "y", "o", "u", "t", "u", "b", "e", ".", "c", "o", "m", "/", "w", "a", "t", "c", "h", "?", "v", "i", "d", "=", "d", "Q", "w", "4", "w", "9", "W", "g", "X", "c", "Q">>,
        <<"h", "t", "t", "p", "s", ":", "/", "/", "w", "w", "w", ".", "y", "o", "u", "t", "u", "b", "e", ".", "c", "o", "m", "/", "w", "a", "t", "c", "h", "?", " ", "v", "=", "d", "Q", "w", "4", "w", "9", "W", "g", "X", "c", "Q">>,
        <<"h", "t", "t", "p", "s", ":", "/", "/", "w", "w", "w", ".", "y", "o", "u", "t", "u", "b", "e", ".", "c", "o", "m", "/", "s", "h", "o", "r", "t", "s", "/", "d", "Q", "w", "4", "w", "9", "W", "g", "X", "c", "Q">>,
        <<"h", "t", "t", "p", "s", ":", "/", "/", "e", "x", "a", "m", "p", "l", "e", ".", "c", "o", "m", "/", "w", "a", "t", "c", "h", "?", "v", "=", "d", "Q", "w", "4", "w", "9", "W", "g", "X", "c", "Q">>,
        <<"h", "t", "t", "p", "s", ":", "/", "/", "y", "o", "u", "t", "u", ".", "b", "e", "/", "d", "Q", "w", "4", "w", "9", "W", "g">>}}

DefaultUrl == [url |-> <<"y", "o", "u", "t", "u", ".", "b", "e", "/", "d", "Q", "w", "4", "w", "9", "W", "g", "X", "c", "Q">>, id |-> <<"d", "Q", "w", "4", "w", "9", "W", "g", "X", "c", "Q">>]

TranscriptAlphabet == <<"a", "b", " ", "c", "d", "e">>

\* a transcript of n characters
Pattern(n) == [i \in 1..n |-> TranscriptAlphabet[((i - 1) % Len(TranscriptAlphabet)) + 1]]

\* n characters of whitespace
Blank(n) == [i \in 1..n |-> IF i % 2 = 1 THEN " " ELSE "\n"]

\* lengths around the window boundaries of the capped token limit
LongLengths ==
    LET c == chunk_size_chars(TokenCap)
        s == WindowStep(TokenCap)
    IN  {c, c + 1, 2 * s, 2 * s + 1, s + c, s + c + 1}

ModelMaxLengths == (1..MaxModelTokens) \cup {TokenCap, TokenCap + 1}

Transcripts ==
    {Pattern(n) : n \in 0..MaxTranscriptLen} \cup {Blank(n) : n \in 1..2}

LongTranscripts == {Pattern(n) : n \in LongLengths}

InitSummarizer ==
    /\ pc = "start"
    /\ video_id = None
    /\ text_transcript = <<>>
    /\ start_idx = 0
    /\ summaries = <<>>
    /\ pipelineCalls = <<>>
    /\ fetchCalls = 0
    /\ returned = NoReturn
    /\ raised = ""
    /\ failed = NoFailure
    /\ \/ \* every URL, a short and a long transcript
          /\ entry = Handler
          /\ \E u \in ShapedUrls \cup OtherUrls : video_url = u.url /\ url_id = u.id
          /\ model_max_length = 2
          /\ transcript \in {Pattern(3), Pattern(6)}
       \/ \* one URL, every transcript and token limit
          /\ \/ entry = Handler /\ video_url = DefaultUrl.url /\ url_id = DefaultUrl.id
             \/ entry = Direct /\ video_url = <<>> /\ url_id = None
          /\ \/ /\ model_max_length \in ModelMaxLengths
                /\ transcript \in Transcripts
             \/ /\ model_max_length \in {TokenCap, TokenCap + 1}
                /\ transcript \in LongTranscripts

(***************************************************************************)
(* sentiment_analyzer.py: process_reviews_file                             *)
(***************************************************************************)

REVIEW_COLUMN == "Reviews"

Labels == {"POSITIVE", "NEGATIVE"}

NoFile == [uploaded |-> FALSE, readable |-> FALSE, columns |-> {}, rows |-> <<>>]
NoFrame == [columns |-> {}, rows |-> <<>>]
NoError == [type |-> "", msg |-> ""]
NoResult == [table |-> <<>>, chart |-> FALSE, returned |-> FALSE]

ColumnNames == {"Reviews", "reviews", "Rating"}
Cells == {"good", "bad"}

RowsUpTo(n) == UNION {[1..k -> Cells] : k \in 0..n}

\* the files a user may upload: an Excel file pandas can or cannot read, with
\* some columns and rows
Files ==
    {[uploaded |-> TRUE, readable |-> r, columns |-> c, rows |-> w] :
        r \in BOOLEAN, c \in SUBSET ColumnNames, w \in RowsUpTo(MaxRows)}

\* the column test passing for a name in any case
HasReviewColumnAnyCase(columns) == columns \cap {"Reviews", "reviews"} # {}

\* line 86: REVIEW_COLUMN in df.columns
HasReviewColumn(columns) == REVIEW_COLUMN \in columns

RaiseR(type, msg) ==
    /\ raised_r' = [type |-> type, msg |-> msg]
    /\ pc_r' = "done"

\* lines 81-87: the file is tested, read, and its columns are tested
ReadFile ==
    /\ pc_r = "start"
    /\ IF ~file.uploaded
       THEN RaiseR("ValueError", "No file was uploaded.") /\ UNCHANGED df
       ELSE IF ~file.readable
       THEN RaiseR("Exception", "read_excel") /\ UNCHANGED df
       ELSE /\ df' = [columns |-> file.columns, rows |-> file.rows]
            /\ IF ~HasReviewColumn(df'.columns)
               THEN RaiseR("ValueError", "Excel file must contain a 'Reviews' column.")
               ELSE pc_r' = "apply" /\ UNCHANGED raised_r
    /\ UNCHANGED <<revFrame, sentiments, classifierCalls, chartCalls, returned_r>>

\* line 89, df[REVIEW_COLUMN]: a KeyError when the frame has no such column
SelectColumn ==
    /\ pc_r = "apply"
    /\ IF REVIEW_COLUMN \in df.columns
       THEN pc_r' = "classify" /\ UNCHANGED raised_r
       ELSE RaiseR("KeyError", REVIEW_COLUMN)
    /\ UNCHANGED <<revFrame, df, sentiments, classifierCalls, chartCalls, returned_r>>

\* line 89, .apply(get_sentiment_label): the next row is classified (lines 32-33)
ClassifyRow ==
    /\ pc_r = "classify"
    /\ Len(sentiments) < Len(df.rows)
    /\ classifierCalls' = Append(classifierCalls, Len(sentiments) + 1)
    /\ \/ /\ \E label \in Labels : sentiments' = Append(sentiments, label)
          /\ UNCHANGED <<pc_r, raised_r>>
       \/ /\ RaiseR("Exception", "sentiment_pipeline")
          /\ UNCHANGED sentiments
    /\ UNCHANGED <<revFrame, df, chartCalls, returned_r>>

\* lines 90-92: every row is labelled; the chart is drawn and both are returned
CreateChart ==
    /\ pc_r = "classify"
    /\ Len(sentiments) = Len(df.rows)
    /\ chartCalls' = chartCalls + 1
    /\ \/ /\ returned_r' = [table |-> sentiments, chart |-> TRUE, returned |-> TRUE]
          /\ pc_r' = "done"
          /\ UNCHANGED raised_r
       \/ /\ RaiseR("Exception", "create_sentiment_pie_chart")
          /\ UNCHANGED returned_r
    /\ UNCHANGED <<revFrame, df, sentiments, classifierCalls>>

NextReviews ==
    \/ ReadFile
    \/ SelectColumn
    \/ ClassifyRow
    \/ CreateChart

ReviewsStart ==
    /\ pc_r = "start"
    /\ df = NoFrame
    /\ sentiments = <<>>
    /\ classifierCalls = <<>>
    /\ chartCalls = 0
    /\ returned_r = NoResult
    /\ raised_r = NoError

InitReviews == ReviewsStart /\ file \in Files \cup {NoFile}

(***************************************************************************)
(* wiki_rag.py: get_index behind st.cache_resource                         *)
(***************************************************************************)

\* the test of line 63 taken as never true
IsDirNever(dir) == FALSE

\* line 63: os.path.isdir(INDEX_DIR)
IsDir(dir) == dir # "absent"

\* the invocation ends: with the index (which the decorator keeps), or by an exception
Return(ok) ==
    /\ pc_i' = "idle"
    /\ cached' = ok

\* get_index() is called: st.cache_resource returns the index it holds, or runs the
\* body (one run at a time: the decorator computes a value under a lock)
Invoke ==
    /\ pc_i = "idle"
    /\ invocations < MaxInvocations
    /\ invocations' = invocations + 1
    /\ dir_at_invoke' = (index_dir # "absent")
    /\ pc_i' = IF cached THEN "idle" ELSE "check"
    /\ UNCHANGED <<idxFrame, index_dir, cached, fetches, embeddings, loads, restarts>>

\* line 63
CheckDir ==
    /\ pc_i = "check"
    /\ pc_i' = IF IsDir(index_dir) THEN "load" ELSE "fetch"
    /\ UNCHANGED <<idxFrame, index_dir, cached, dir_at_invoke, fetches, embeddings, loads,
                   invocations, restarts>>

\* lines 64-66: the persisted index is loaded; a directory a failed persist left
\* cannot be loaded
LoadIndex ==
    /\ pc_i = "load"
    /\ \/ index_dir = "complete" /\ Return(TRUE) /\ loads' = loads + 1
       \/ Return(FALSE) /\ UNCHANGED loads
    /\ UNCHANGED <<idxFrame, index_dir, dir_at_invoke, fetches, embeddings, invocations, restarts>>

\* line 69: WikipediaReader().load_data
FetchDocs ==
    /\ pc_i = "fetch"
    /\ fetches' = fetches + 1
    /\ \/ pc_i' = "embed_model" /\ UNCHANGED cached
       \/ Return(FALSE)
    /\ UNCHANGED <<idxFrame, index_dir, dir_at_invoke, embeddings, loads, invocations, restarts>>

\* lines 70-78: OllamaEmbedding(...), or st.stop() when it raises
InitEmbedding ==
    /\ pc_i = "embed_model"
    /\ \/ pc_i' = "build" /\ UNCHANGED cached
       \/ Return(FALSE)
    /\ UNCHANGED <<idxFrame, index_dir, dir_at_invoke, fetches, embeddings, loads, invocations,
                   restarts>>

\* line 80: VectorStoreIndex.from_documents embeds the documents
BuildIndex ==
    /\ pc_i = "build"
    /\ embeddings' = embeddings + 1
    /\ \/ pc_i' = "persist" /\ UNCHANGED cached
       \/ Return(FALSE)
    /\ UNCHANGED <<idxFrame, index_dir, dir_at_invoke, fetches, loads, invocations, restarts>>

\* lines 81-83: persist writes the directory and the index is returned; a persist
\* that fails may leave a part of the directory, and st.success may end the run
\* after the directory is written
Persist ==
    /\ pc_i = "persist"
    /\ \/ index_dir' = "complete" /\ Return(TRUE)
       \/ index_dir' \in {index_dir, "partial", "complete"} /\ Return(FALSE)
    /\ UNCHANGED <<idxFrame, dir_at_invoke, fetches, embeddings, loads, invocations, restarts>>

\* the process ends and is started again: the decorator's cache is empty, the disk is kept
Restart ==
    /\ restarts < MaxRestarts
    /\ restarts' = restarts + 1
    /\ pc_i' = "idle"
    /\ cached' = FALSE
    /\ UNCHANGED <<idxFrame, index_dir, dir_at_invoke, fetches, embeddings, loads, invocations>>

NextIndex ==
    \/ Invoke
    \/ CheckDir
    \/ LoadIndex
    \/ FetchDocs
    \/ InitEmbedding
    \/ BuildIndex
    \/ Persist
    \/ Restart

IndexStart ==
    /\ cached = FALSE
    /\ dir_at_invoke = FALSE
    /\ fetches = 0
    /\ embeddings = 0
    /\ loads = 0
    /\ invocations = 0
    /\ restarts = 0

\* the first start of the application: on a disk without the directory, or with
\* one an earlier run left
InitIndex == IndexStart /\ index_dir \in {"absent", "partial", "complete"}

(***************************************************************************)
(* The three applications are separate programs: one specification each.   *)
(***************************************************************************)
\* the summarizer is not running
SummarizerOff ==
    /\ entry = Handler
    /\ video_url = <<>>
    /\ url_id = None
    /\ transcript = <<>>
    /\ model_max_length = TokenCap
    /\ pc = "off"
    /\ video_id = None
    /\ text_transcript = <<>>
    /\ start_idx = 0
    /\ summaries = <<>>
    /\ pipelineCalls = <<>>
    /\ fetchCalls = 0
    /\ returned = NoReturn
    /\ raised = ""
    /\ failed = NoFailure

ReviewsOff ==
    /\ file = NoFile
    /\ pc_r = "off"
    /\ df = NoFrame
    /\ sentiments = <<>>
    /\ classifierCalls = <<>>
    /\ chartCalls = 0
    /\ returned_r = NoResult
    /\ raised_r = NoError

IndexOff == IndexStart /\ index_dir = "absent"

InitSummarizerApp == InitSummarizer /\ ReviewsOff /\ IndexOff /\ pc_i = "off"

InitReviewsApp == InitReviews /\ SummarizerOff /\ IndexOff /\ pc_i = "off"

InitIndexApp == InitIndex /\ pc_i = "idle" /\ SummarizerOff /\ ReviewsOff

SpecSummarizer == InitSummarizerApp /\ [][NextSummarizer]_vars

SpecReviews == InitReviewsApp /\ [][NextReviews]_vars

SpecIndex == InitIndexApp /\ [][NextIndex]_vars

(***************************************************************************)
(* Properties of the summarizer.                                           *)
(***************************************************************************)
\* generate_summary has been entered with text_input = transcript
Entered == pc \in {"whole", "loop", "combined"} \/ (pc = "done" /\ pipelineCalls # <<>>)

LongInput == Len(transcript) > chunk_size_chars(M)

IsChunkCall(c) == c.kind = "chunk"

\* the calls made on windows, in the order made
Windows == SelectSeq(pipelineCalls, IsChunkCall)

Outs(calls) == [i \in 1..Len(calls) |-> calls[i].out]

\* the window loop has run to its end
LoopFinished ==
    /\ Entered
    /\ LongInput
    /\ \/ pc = "combined"
       \/ pc = "done" /\ (failed = NoFailure \/ pipelineCalls[Len(pipelineCalls)].kind = "combined")

\* C1: a transcript no longer than chunk_size_chars is summarized by exactly one
\* call of the pipeline, whose argument is the whole transcript, and the summary
\* of that call is what generate_summary returns.
C1_ShortTranscriptOneCall ==
    (Entered /\ ~LongInput) =>
        /\ Len(pipelineCalls) <= 1
        /\ pc = "done" =>
              /\ Len(pipelineCalls) = 1
              /\ pipelineCalls[1].arg = transcript
              /\ failed = NoFailure => returned = Summary(pipelineCalls[1].out)

C1_Witness ==
    /\ pc = "done"
    /\ Len(pipelineCalls) = 1
    /\ pipelineCalls[1].kind = "whole"
    /\ Len(transcript) = chunk_size_chars(M)
    /\ overlap_chars(M) > 0
    /\ returned.kind = "summary"

\* C2 as claimed: a transcript longer than chunk_size_chars is summarized by at
\* least two calls, one per window in increasing order of start index, and what
\* is returned is the summaries of these calls joined by single spaces, whatever
\* their lengths.
C2_ReturnsJoinedSummaries ==
    (pc = "done" /\ Entered /\ LongInput /\ failed = NoFailure) =>
        /\ Len(pipelineCalls) >= 2
        /\ \A i \in 1..Len(pipelineCalls) : pipelineCalls[i].kind = "chunk"
        /\ \A i \in 1..(Len(pipelineCalls) - 1) :
               pipelineCalls[i].start < pipelineCalls[i + 1].start
        /\ returned = Summary(Join(Outs(pipelineCalls)))

\* C2 as amended: ... the joined summaries are returned when they are no longer
\* than chunk_size_chars; when they are longer, one more call is made on the
\* joined summaries and the summary of that call is returned.
C2_ReturnsJoinedOrResummarized ==
    (pc = "done" /\ Entered /\ LongInput /\ failed = NoFailure) =>
        LET joined == Join(Outs(Windows))
        IN  /\ Len(Windows) >= 2
            /\ \A i \in 1..Len(Windows) : pipelineCalls[i] = Windows[i]
            /\ \A i \in 1..(Len(Windows) - 1) : Windows[i].start < Windows[i + 1].start
            /\ IF Len(joined) <= chunk_size_chars(M)
               THEN /\ Len(pipelineCalls) = Len(Windows)
                    /\ returned = Summary(joined)
               ELSE /\ Len(pipelineCalls) = Len(Windows) + 1
                    /\ pipelineCalls[Len(pipelineCalls)].kind = "combined"
                    /\ pipelineCalls[Len(pipelineCalls)].arg = joined
                    /\ returned = Summary(pipelineCalls[Len(pipelineCalls)].out)

\* a long transcript returned as the joined summaries of windows whose summaries differ
C2_Witness ==
    /\ pc = "done"
    /\ LongInput
    /\ failed = NoFailure
    /\ Len(pipelineCalls) = 3
    /\ pipelineCalls[1].out # pipelineCalls[2].out
    /\ returned = Summary(Join(Outs(pipelineCalls)))

\* C3: when the window loop has ended, every index 0..len-1 of the transcript
\* lies in a summarized window, the first window starts at 0, the last window
\* ends at len, and each call was given the characters of its window.
C3_NoGaps ==
    LoopFinished =>
        /\ Windows # <<>>
        /\ Windows[1].start = 0
        /\ Windows[Len(Windows)].end = Len(transcript)
        /\ \A i \in 0..(Len(transcript) - 1) :
               \E k \in 1..Len(Windows) : Windows[k].start <= i /\ i < Windows[k].end
        /\ \A k \in 1..Len(Windows) :
               Windows[k].arg = Slice(transcript, Windows[k].start, Windows[k].end)

C3_Witness ==
    /\ LoopFinished
    /\ Len(Windows) >= 3
    /\ overlap_chars(M) > 0

\* C4 as claimed, for the token limits with a positive step: two consecutive
\* windows share at most overlap_chars characters, and the later one extends
\* past the end of the earlier one.
C4_NoDuplicatedWindows ==
    (Entered /\ LongInput /\ WindowStep(M) > 0) =>
        \A k \in 1..(Len(Windows) - 1) :
            /\ Windows[k].end - Windows[k + 1].start <= overlap_chars(M)
            /\ Windows[k + 1].end > Windows[k].end

\* what the handler is to return for exception e
ExpectedMessage(e) ==
    IF e = "NoTranscriptFound" THEN MsgNoTranscriptFound
    ELSE IF e = "TranscriptsDisabled" THEN MsgTranscriptsDisabled
    ELSE IF e = "VideoUnavailable" THEN MsgVideoUnavailable
    ELSE IF e = "InvalidVideoId" THEN MsgInvalidVideoId
    ELSE MsgGeneric

\* C5: no exception leaves get_youtube_summary_from_url: when the fetch, the
\* formatting or a summarization call raises, the function returns the message
\* of that exception and nothing of the summaries made before; the step that
\* raised was called once and nothing is called after it.
C5_NoExceptionPropagates ==
    entry = Handler =>
        /\ raised = ""
        /\ failed # NoFailure =>
              /\ video_id # None
              /\ pc = "done"
              /\ returned = Message(ExpectedMessage(failed.exc))
              /\ fetchCalls = 1
              /\ failed.step \in {"fetch", "format"} => pipelineCalls = <<>>
              /\ failed.step = "summarize" =>
                    /\ pipelineCalls # <<>>
                    /\ pipelineCalls[Len(pipelineCalls)].out = None
                    /\ \A i \in 1..(Len(pipelineCalls) - 1) :
                           pipelineCalls[i].out # None

\* a later window fails after earlier windows were summarized
C5_Witness ==
    /\ entry = Handler
    /\ pc = "done"
    /\ failed = [step |-> "summarize", exc |-> "Exception"]
    /\ Len(summaries) >= 2
    /\ returned = Message(MsgGeneric)

\* C6: for a URL the pattern does not match, extract_video_id returns None and
\* get_youtube_summary_from_url returns the fixed message without a call of the
\* transcript API or of the pipeline.
C6_NoMatchNoCalls ==
    (entry = Handler /\ ~RegexMatches(video_url)) =>
        /\ pc \in {"start", "done"}
        /\ fetchCalls = 0
        /\ pipelineCalls = <<>>
        /\ raised = ""
        /\ pc = "done" => video_id = None /\ returned = Message(MsgNoVideoId)

C6_Witness ==
    /\ entry = Handler
    /\ pc = "done"
    /\ ~RegexMatches(video_url)
    /\ Len(video_url) > ID_LEN
    /\ returned = Message(MsgNoVideoId)

\* C7 as claimed: for a URL that embeds an 11-character identifier in a
\* recognized shape, with or without further query parameters, extract_video_id
\* returns that identifier.
C7_ReturnsEmbeddedId ==
    (entry = Handler /\ pc # "start" /\ url_id # None) => video_id = url_id

Ceil(a, b) == (a + b - 1) \div b

NoReviews == ~file.uploaded \/ (file.readable /\ "Reviews" \notin file.columns)

\* a spreadsheet was read and has the 'Reviews' column
WithReviews == file.uploaded /\ file.readable /\ "Reviews" \in file.columns

RowNumbers(n) == [i \in 1..n |-> i]

\* without the file or the column, the call has ended in a ValueError, with no
\* call of the classifier, no chart and nothing returned
FailsBeforeAnyCall ==
    (pc_r # "start" /\ NoReviews) =>
        /\ pc_r = "done"
        /\ raised_r.type = "ValueError"
        /\ classifierCalls = <<>>
        /\ chartCalls = 0
        /\ returned_r = NoResult

C9_NoFetchWhenIndexExists ==
    [][/\ (fetches' # fetches \/ embeddings' # embeddings) =>
              (~dir_at_invoke /\ index_dir = "absent")
       /\ index_dir = "complete" => (fetches' = fetches /\ embeddings' = embeddings)]_vars

\* an index was built once, and later invocations, one of them after a restart,
\* returned without a second fetch
C9_Witness ==
    /\ pc_i = "idle"
    /\ index_dir = "complete"
    /\ restarts >= 1
    /\ loads >= 1
    /\ invocations >= 3
    /\ fetches = 1
    /\ embeddings = 1

====
